---- MODULE Spec2Model ----
(***************************************************************************)
(* linear-copilot: the webhook pipeline (authentication, classification,   *)
(* label extraction, dispatch, failure notification) of the two entry      *)
(* points src/api/webhook.ts (HTTP handler) and src/index.ts (workflow),   *)
(* and the priority tools of utils/agent-tools.ts and utils/tools.ts.      *)
(***************************************************************************)
EXTENDS Integers, Sequences, FiniteSets, TLC

(***************************************************************************)
(* Bounds of the model.                                                    *)
(***************************************************************************)
\* longest label sequence (data.labels.nodes) a request carries
MaxLabels == 2
\* the value Date.now() returns while the request is validated
Now == 1000000

(***************************************************************************)
(* JavaScript values.  A missing property reads as UNDEF; UNDEF and the    *)
(* empty string are falsy.                                                 *)
(***************************************************************************)
UNDEF == "<undefined>"

Truthy(s) == s # UNDEF /\ s # ""

\* String.prototype.toLowerCase on one character
LowerChar(c) ==
    CASE c = "B" -> "b"
      [] c = "U" -> "u"
      [] c = "G" -> "g"
      [] c = "F" -> "f"
      [] c = "I" -> "i"
      [] c = "M" -> "m"
      [] OTHER -> c

\* String.prototype.toLowerCase; a string subject to it is a sequence of characters
ToLowerCase(s) == [i \in 1..Len(s) |-> LowerChar(s[i])]

(***************************************************************************)
(* utils/webhook.ts: the authenticator.                                    *)
(***************************************************************************)
ALLOWED_IPS == {"35.231.147.226", "35.243.134.228", "34.140.253.14", "34.38.87.206"}

WINDOW_MS == 60000

\* A string holding IP text: the comma-separated entries, each an address with or
\* without surrounding whitespace.  <<>> is the empty string (or an absent header).
IpText(addr) == <<[addr |-> addr, pad |-> FALSE]>>

\* createHmac("sha256", secret).update(payload).digest("hex"): a lowercase hex
\* string of 64 characters determined by (secret, payload), collision-free.
HmacSha256Hex(payload, secret) ==
    [src |-> <<secret, payload>>, hex |-> "lower", len |-> 64]

\* the empty string as a signature header (the header was absent)
EmptySignature == [src |-> <<>>, hex |-> "lower", len |-> 0]

\* verifyWebhookSignature comparing the hex digits without regard to case
verifyWebhookSignatureMutant(payload, signature, secret) ==
    /\ signature.src = HmacSha256Hex(payload, secret).src
    /\ signature.len = HmacSha256Hex(payload, secret).len

verifyWebhookSignature(payload, signature, secret) ==
    signature = HmacSha256Hex(payload, secret)

\* verifyWebhookTimestamp with a strict comparison
verifyWebhookTimestampMutant(payload, currentTime) ==
    IF ~payload.webhookTimestamp.present THEN FALSE
    ELSE LET d == currentTime - payload.webhookTimestamp.value
             abs == IF d < 0 THEN -d ELSE d
         IN abs < WINDOW_MS

\* Math.abs(currentTime - webhookTime) <= 60 * 1000; an undefined timestamp makes
\* the difference NaN, and NaN <= x is false.
verifyWebhookTimestamp(payload, currentTime) ==
    IF ~payload.webhookTimestamp.present THEN FALSE
    ELSE LET d == currentTime - payload.webhookTimestamp.value
             abs == IF d < 0 THEN -d ELSE d
         IN abs <= WINDOW_MS

\* verifyWebhookIp trimming its argument first
verifyWebhookIpMutant(ip) ==
    /\ Len(ip) = 1
    /\ ip[1].addr \in ALLOWED_IPS

verifyWebhookIp(ip) ==
    /\ Len(ip) = 1
    /\ ~ip[1].pad
    /\ ip[1].addr \in ALLOWED_IPS

\* The result of a call: a returned value or a raised error.
Return(v) == [kind |-> "return", value |-> v, errType |-> "", message |-> ""]
Throw(t, m) == [kind |-> "throw", value |-> FALSE, errType |-> t, message |-> m]

\* JSON.parse(body): a SyntaxError for text that is not JSON; otherwise the value.
\* Reading a property of the parsed value null raises a TypeError.
JsonParseThrows(body) == body.json = "malformed"

\* validateWebhookRequest testing the secret after the IP and signature checks
validateWebhookRequestMutant(headers, body, ip, webhookSecret, currentTime) ==
    IF ~verifyWebhookIp(ip) THEN Return(FALSE)
    ELSE IF ~verifyWebhookSignature(body, headers.signature, webhookSecret)
    THEN Return(FALSE)
    ELSE IF ~Truthy(webhookSecret)
    THEN Throw("Error", "LINEAR_WEBHOOK_SECRET is not configured")
    ELSE IF JsonParseThrows(body)
    THEN Throw("SyntaxError", "Unexpected token in JSON")
    ELSE IF body.json = "null"
    THEN Throw("TypeError", "Cannot read properties of null")
    ELSE IF ~verifyWebhookTimestamp(body, currentTime) THEN Return(FALSE)
    ELSE Return(TRUE)

validateWebhookRequest(headers, body, ip, webhookSecret, currentTime) ==
    IF ~Truthy(webhookSecret)
    THEN Throw("Error", "LINEAR_WEBHOOK_SECRET is not configured")
    ELSE IF ~verifyWebhookIp(ip) THEN Return(FALSE)
    ELSE IF ~verifyWebhookSignature(body, headers.signature, webhookSecret)
    THEN Return(FALSE)
    ELSE IF JsonParseThrows(body)
    THEN Throw("SyntaxError", "Unexpected token in JSON")
    ELSE IF body.json = "null"
    THEN Throw("TypeError", "Cannot read properties of null")
    ELSE IF ~verifyWebhookTimestamp(body, currentTime) THEN Return(FALSE)
    ELSE Return(TRUE)

\* isIssueCreationEvent without the title
isIssueCreationEventMutant(payload) ==
    /\ payload.type = "Issue"
    /\ payload.action = "create"
    /\ payload.data.present /\ Truthy(payload.data.id)

isIssueCreationEvent(payload) ==
    /\ payload.type = "Issue"
    /\ payload.action = "create"
    /\ payload.data.present /\ Truthy(payload.data.id)
    /\ payload.data.present /\ Truthy(payload.data.title)

\* isIssueLabelUpdateEvent looking at updatedFrom.labelIds only
isIssueLabelUpdateEventMutant(payload) ==
    /\ payload.type = "Issue"
    /\ payload.action = "update"
    /\ payload.data.present /\ Truthy(payload.data.id)
    /\ payload.updatedFromLabelIds

\* isIssueLabelUpdateEvent without the test of payload.data?.id
isIssueLabelUpdateEventNoId(payload) ==
    /\ payload.type = "Issue"
    /\ payload.action = "update"
    /\ \/ payload.updatedFromLabelIds
       \/ payload.data.present /\ payload.data.labels.present

isIssueLabelUpdateEvent(payload) ==
    /\ payload.type = "Issue"
    /\ payload.action = "update"
    /\ payload.data.present /\ Truthy(payload.data.id)
    /\ \/ payload.updatedFromLabelIds
       \/ payload.data.present /\ payload.data.labels.present

(***************************************************************************)
(* utils/agent-utils.ts: environment validation and tracker clients.       *)
(***************************************************************************)
RequiredEnvKeys ==
    {"LINEAR_WEBHOOK_SECRET", "MANAGER_API_KEY", "BUG_API_KEY", "FEATURE_API_KEY",
     "IMPROVEMENT_API_KEY"}

OptionalEnvKeys == {"UPSTASH_REDIS_URL", "UPSTASH_REDIS_TOKEN"}

\* obj[name] of a JavaScript object: a missing property reads as undefined
GetProp(obj, name) == IF name \in DOMAIN obj THEN obj[name] ELSE UNDEF

validateEnv(e) ==
    LET missing == {key \in RequiredEnvKeys : ~Truthy(GetProp(e, key))}
    IN IF missing # {}
       THEN Throw("Error", "Missing required environment variables")
       ELSE Return([upstashRedisUrl |-> GetProp(e, "UPSTASH_REDIS_URL"),
                    upstashRedisToken |-> GetProp(e, "UPSTASH_REDIS_TOKEN"),
                    linearWebhookSecret |-> GetProp(e, "LINEAR_WEBHOOK_SECRET"),
                    managerApiKey |-> GetProp(e, "MANAGER_API_KEY"),
                    bugApiKey |-> GetProp(e, "BUG_API_KEY"),
                    featureApiKey |-> GetProp(e, "FEATURE_API_KEY"),
                    improvementApiKey |-> GetProp(e, "IMPROVEMENT_API_KEY")])

MissingApiKeyMessage(role) ==
    CASE role = "manager" -> "Missing API key for manager role"
      [] role = "bug" -> "Missing API key for bug role"
      [] role = "feature" -> "Missing API key for feature role"
      [] role = "improvement" -> "Missing API key for improvement role"

FailedClientMessage(role) ==
    CASE role = "manager" -> "Failed to initialize Linear client for manager"
      [] role = "bug" -> "Failed to initialize Linear client for bug"
      [] role = "feature" -> "Failed to initialize Linear client for feature"
      [] role = "improvement" -> "Failed to initialize Linear client for improvement"

\* initializeLinearClient(apiKey, role); sdkOk is whether new LinearClient returns
initializeLinearClient(apiKey, role, sdkOk) ==
    IF ~Truthy(apiKey) THEN Throw("Error", MissingApiKeyMessage(role))
    ELSE IF ~sdkOk THEN Throw("Error", FailedClientMessage(role))
    ELSE Return([role |-> role, apiKey |-> apiKey])

(***************************************************************************)
(* The inputs the model draws: environments and requests.                  *)
(***************************************************************************)
EnvValue(key) ==
    CASE key = "LINEAR_WEBHOOK_SECRET" -> "whsec_live"
      [] key = "MANAGER_API_KEY" -> "lin_api_manager"
      [] key = "BUG_API_KEY" -> "lin_api_bug"
      [] key = "FEATURE_API_KEY" -> "lin_api_feature"
      [] key = "IMPROVEMENT_API_KEY" -> "lin_api_improvement"
      [] key = "UPSTASH_REDIS_URL" -> "https://redis.example"
      [] key = "UPSTASH_REDIS_TOKEN" -> "redis_token"

\* process.env: the optional keys set and any subset of the required keys unset, or
\* everything set but one required key empty, or only the optional keys unset
Environments ==
    {[key \in (RequiredEnvKeys \ unset) \cup OptionalEnvKeys |-> EnvValue(key)] :
        unset \in SUBSET RequiredEnvKeys}
    \cup {[key \in RequiredEnvKeys \cup OptionalEnvKeys |->
              IF key = empty THEN "" ELSE EnvValue(key)] : empty \in RequiredEnvKeys}
    \cup {[key \in RequiredEnvKeys |-> EnvValue(key)]}

LabelBug == <<"B", "u", "g">>
LabelBUG == <<"B", "U", "G">>
LabelFeature == <<"f", "e", "a", "t", "u", "r", "e">>
LabelImprovement == <<"I", "m", "p", "r", "o", "v", "e", "m", "e", "n", "t">>
LabelUrgent == <<"u", "r", "g", "e", "n", "t">>

LabelLowerBug == <<"b", "u", "g">>

LabelManager == <<"M", "a", "n", "a", "g", "e", "r">>

LabelNames ==
    {LabelBug, LabelBUG, LabelLowerBug, LabelFeature, LabelImprovement, LabelUrgent,
     LabelManager}
LaterLabelNames == {LabelFeature, LabelUrgent}

\* data.labels.nodes: any first label, then labels of LaterLabelNames
LabelLists ==
    {l \in UNION {[1..n -> LabelNames] : n \in 0..MaxLabels} :
        \A i \in 2..Len(l) : l[i] \in LaterLabelNames}

NoLabels == [present |-> FALSE, nodes |-> <<>>]
LabelChoices == {NoLabels} \cup {[present |-> TRUE, nodes |-> l] : l \in LabelLists}

NoData == [present |-> FALSE, id |-> UNDEF, title |-> UNDEF, labels |-> NoLabels]
DataChoices ==
    {NoData} \cup
    {[present |-> TRUE, id |-> i, title |-> t, labels |-> l] :
        i \in {UNDEF, "", "ISS-1"}, t \in {UNDEF, "", "Crash on save"}, l \in LabelChoices}

\* the fields of a JSON object body that the pipeline reads, without the timestamp
Payload(type, action, data, upd) ==
    [type |-> type, action |-> action, data |-> data, updatedFromLabelIds |-> upd]

IssuePayloads ==
    {Payload("Issue", a, d, u) : a \in {"create", "update"}, d \in DataChoices, u \in BOOLEAN}

SampleData == [present |-> TRUE, id |-> "ISS-1", title |-> "Crash on save",
               labels |-> [present |-> TRUE, nodes |-> <<LabelBug>>]]

\* a few payloads of every kind: actionable ones, other actions and other types
SamplePayloads ==
    {Payload(t, a, d, FALSE) : t \in {"Issue", "Comment"}, a \in {"create", "update", "remove"},
                               d \in {NoData, SampleData}}

Timestamp(v) == [present |-> TRUE, value |-> v]
NoTimestamp == [present |-> FALSE, value |-> 0]

EdgeTimestamps ==
    {Timestamp(Now - 61 * 1000),
     Timestamp(Now - WINDOW_MS - 1), Timestamp(Now - WINDOW_MS), Timestamp(Now),
     Timestamp(Now + WINDOW_MS), Timestamp(Now + WINDOW_MS + 1), NoTimestamp}

ObjectBody(ts, p) ==
    [json |-> "object", webhookTimestamp |-> ts, type |-> p.type, action |-> p.action,
     data |-> p.data, updatedFromLabelIds |-> p.updatedFromLabelIds]

\* a body that is not JSON text, and the JSON text null
OddBody(json) ==
    [json |-> json, webhookTimestamp |-> NoTimestamp, type |-> UNDEF, action |-> UNDEF,
     data |-> NoData, updatedFromLabelIds |-> FALSE]

Upper(sig) == [sig EXCEPT !.hex = "upper"]

\* linear-signature values for a body: the sender's digest, the same in upper case,
\* no header, a digest under another key, a digest of the body before it was altered
SignatureChoices(body) ==
    {HmacSha256Hex(body, EnvValue("LINEAR_WEBHOOK_SECRET")),
     Upper(HmacSha256Hex(body, EnvValue("LINEAR_WEBHOOK_SECRET"))),
     EmptySignature,
     HmacSha256Hex(body, "whsec_other"),
     HmacSha256Hex([body EXCEPT !.action = "remove"], EnvValue("LINEAR_WEBHOOK_SECRET"))}

\* values of the client-address header (x-forwarded-for, cf-connecting-ip)
AddressHeaders ==
    {IpText(a) : a \in ALLOWED_IPS \cup {"203.0.113.9", "35.231.147.226:443", "not-an-ip"}}
    \cup {<<>>, <<[addr |-> "35.231.147.226", pad |-> TRUE]>>,
          <<[addr |-> "34.38.87.206", pad |-> TRUE], [addr |-> "203.0.113.9", pad |-> FALSE]>>}

Request(sig, body, addr, realIp) ==
    [headers |-> [signature |-> sig], body |-> body, address |-> addr, xRealIp |-> realIp]

\* every payload, sent by the tracker: signed, from an allowlisted address, current
TrackerRequests ==
    {Request(HmacSha256Hex(ObjectBody(ts, p), EnvValue("LINEAR_WEBHOOK_SECRET")),
             ObjectBody(ts, p), IpText(a), <<>>) :
        p \in IssuePayloads \cup SamplePayloads,
        ts \in {Timestamp(Now - WINDOW_MS), Timestamp(Now + WINDOW_MS)},
        a \in {"35.231.147.226", "34.38.87.206"}}

\* every address, signature, timestamp and body kind, with the sample payloads
ProbeBodies ==
    {ObjectBody(ts, p) : ts \in EdgeTimestamps, p \in SamplePayloads}
    \cup {OddBody("malformed"), OddBody("null")}

ProbeRequests ==
    UNION {{Request(sig, b, addr, IF addr = <<>> THEN r ELSE <<>>) :
               sig \in SignatureChoices(b), addr \in AddressHeaders,
               r \in {<<>>, IpText("34.140.253.14")}} : b \in ProbeBodies}

Requests == TrackerRequests \cup ProbeRequests

(***************************************************************************)
(* utils/agent-tools.ts and utils/tools.ts: the priority tools.            *)
(***************************************************************************)
\* JavaScript values a matrix lookup can yield
JsNumber(n) == [t |-> "number", n |-> n, s |-> ""]
JsString(str) == [t |-> "string", n |-> 0, s |-> str]
JsUndefined == [t |-> "undefined", n |-> 0, s |-> ""]
JsFunction == [t |-> "function", n |-> 0, s |-> ""]

\* BugPriorityMatrix with the cells of its first two rows shifted as in the
\* assessment tool's matrix
BugPriorityMatrixMutant ==
    [critical |-> [critical |-> 1, high |-> 2, medium |-> 2, low |-> 3],
     high     |-> [critical |-> 2, high |-> 2, medium |-> 3, low |-> 3],
     medium   |-> [critical |-> 2, high |-> 2, medium |-> 3, low |-> 3],
     low      |-> [critical |-> 2, high |-> 3, medium |-> 3, low |-> 4]]

\* createBugAgentTools.updatePriority: priorityMatrix[impact][urgency]
BugPriorityMatrix ==
    [critical |-> [critical |-> 1, high |-> 1, medium |-> 2, low |-> 2],
     high     |-> [critical |-> 1, high |-> 2, medium |-> 2, low |-> 3],
     medium   |-> [critical |-> 2, high |-> 2, medium |-> 3, low |-> 3],
     low      |-> [critical |-> 2, high |-> 3, medium |-> 3, low |-> 4]]

\* createFeatureAgentTools.updatePriority: priorityMatrix[businessValue][implementationEffort]
FeaturePriorityMatrix ==
    [critical |-> [small |-> 1, medium |-> 1, large |-> 2, xlarge |-> 2],
     high     |-> [small |-> 1, medium |-> 2, large |-> 2, xlarge |-> 3],
     medium   |-> [small |-> 2, medium |-> 2, large |-> 3, xlarge |-> 3],
     low      |-> [small |-> 3, medium |-> 3, large |-> 4, xlarge |-> 4]]

\* createImprovementAgentTools.updatePriority: priorityMatrix[technicalImpact][implementationRisk]
ImprovementPriorityMatrix ==
    [critical |-> [low |-> 1, medium |-> 1, high |-> 2],
     high     |-> [low |-> 1, medium |-> 2, high |-> 3],
     medium   |-> [low |-> 2, medium |-> 3, high |-> 3],
     low      |-> [low |-> 3, medium |-> 3, high |-> 4]]

\* createPriorityAssessmentTool: priorityMatrix[impact][urgency]
AssessmentPriorityMatrix ==
    [critical |-> [critical |-> 1, high |-> 2, medium |-> 2, low |-> 3],
     high     |-> [critical |-> 2, high |-> 2, medium |-> 3, low |-> 3],
     medium   |-> [critical |-> 2, high |-> 3, medium |-> 3, low |-> 4],
     low      |-> [critical |-> 3, high |-> 3, medium |-> 4, low |-> 4]]

DEFAULT_PRIORITY == 3

\* property names every object literal inherits from Object.prototype (a sample)
InheritedKeys == {"constructor"}

\* Object[key], Object being what obj.constructor is for an object literal
ObjectFunctionProperty(key) ==
    CASE key = "name" -> JsString("Object")
      [] key = "length" -> JsNumber(1)
      [] key \in InheritedKeys -> JsFunction
      [] OTHER -> JsUndefined

\* matrix[k1]?.[k2]: own properties first, then the inherited ones
MatrixLookup(matrix, k1, k2) ==
    IF k1 \in DOMAIN matrix
    THEN IF k2 \in DOMAIN matrix[k1] THEN JsNumber(matrix[k1][k2])
         ELSE IF k2 \in InheritedKeys THEN JsFunction
         ELSE JsUndefined
    ELSE IF k1 \in InheritedKeys THEN ObjectFunctionProperty(k2)
    ELSE JsUndefined

\* matrix[k1] is undefined, so matrix[k1][k2] raises a TypeError
RowMissing(matrix, k1) == k1 \notin DOMAIN matrix /\ k1 \notin InheritedKeys

\* v ?? d
Nullish(v, d) == IF v.t = "undefined" THEN JsNumber(d) ELSE v

UpdatePriorityTools == {"bug", "feature", "improvement"}
PriorityTools == UpdatePriorityTools \cup {"assessment"}

ToolMatrix(t) ==
    CASE t = "bug" -> BugPriorityMatrix
      [] t = "feature" -> FeaturePriorityMatrix
      [] t = "improvement" -> ImprovementPriorityMatrix
      [] t = "assessment" -> AssessmentPriorityMatrix

\* const priority = ... of the tool: updatePriority defaults a missing entry,
\* the assessment tool indexes twice without a default
ScorePriority(t, d1, d2) ==
    IF t \in UpdatePriorityTools
    THEN Return(Nullish(MatrixLookup(ToolMatrix(t), d1, d2), DEFAULT_PRIORITY))
    ELSE IF RowMissing(ToolMatrix(t), d1)
    THEN Throw("TypeError", "Cannot read properties of undefined")
    ELSE Return(MatrixLookup(ToolMatrix(t), d1, d2))

\* withErrorHandling(tool, "Failed to update priority"): the message of the rethrown error
WrappedMessage(m) ==
    CASE m = "Issue ISS-1 not found" -> "Failed to update priority: Issue ISS-1 not found"
      [] m = "Tracker request failed" -> "Failed to update priority: Tracker request failed"
      [] m = "Issue update failed" -> "Failed to update priority: Issue update failed"
      [] m = "Comment post failed" -> "Failed to update priority: Comment post failed"
      [] OTHER -> m

\* the error invoke() raises for an error err raised inside the tool
ToolError(t, err) ==
    IF t \in UpdatePriorityTools THEN Throw("Error", WrappedMessage(err.message)) ELSE err

\* the bot name updatePriority comments under
BotName(t) ==
    CASE t = "bug" -> "Bug Bot"
      [] t = "feature" -> "Feature Bot"
      [] t = "improvement" -> "Improvement Bot"
      [] OTHER -> ""

(***************************************************************************)
(* State of one pipeline run, from the start of the serve callback.        *)
(***************************************************************************)
VARIABLES
    entry,      \* "http" (api/webhook.ts) or "workflow" (index.ts)
    envVars,    \* context.env
    env,        \* the Env object validateEnv returned
    pc,         \* the position of the run
    req,        \* the request being handled
    outcome,    \* what the caller gets: a response, a returned value or a raised error
    log,        \* the stages run so far, in order
    clients,    \* the tracker clients initialized, by role
    issueLabel, \* the routing input
    task,       \* the task handed to the task runner
    taskRuns,   \* calls of task.run()
    comments,   \* comments the pipeline asked the comment-poster to post
    taskError,  \* the error task.run() raised
    other,      \* the locals of a second request being handled at the same time
    tool,            \* the priority tool being invoked
    toolArgs,        \* its arguments
    tpc,             \* the position of the invocation
    priority,        \* the tool's local const priority
    trackerPriority, \* the item's priority in the tracker
    trackerUpdates,  \* the priorities issue.update() persisted, in order
    trackerComments, \* the comments the tool posted on the item
    toolResult       \* what invoke() returned or raised

pipelineVars == <<entry, envVars, env, pc, req, outcome, log, clients, issueLabel, task,
                  taskRuns, comments, taskError, other>>

toolVars ==
    <<tool, toolArgs, tpc, priority, trackerPriority, trackerUpdates, trackerComments,
      toolResult>>

vars == <<pipelineVars, toolVars>>

NoEnv == [linearWebhookSecret |-> UNDEF]
NoRequest == Request(EmptySignature, OddBody("malformed"), <<>>, <<>>)
NoTask == [issueId |-> UNDEF, title |-> UNDEF, label |-> <<>>, agents |-> <<>>]
NoError == Return(FALSE)
NoArgs == [issueId |-> UNDEF, d1 |-> UNDEF, d2 |-> UNDEF, reason |-> UNDEF]
NoResult == [kind |-> "none"]
Unset == [t |-> "unset", n |-> 0, s |-> ""]

\* no priority tool is being invoked
ToolsIdle ==
    /\ tool = "none"
    /\ toolArgs = NoArgs
    /\ tpc = "idle"
    /\ priority = Unset
    /\ trackerPriority = Unset
    /\ trackerUpdates = <<>>
    /\ trackerComments = <<>>
    /\ toolResult = NoResult

NoOutcome ==
    [kind |-> "none", status |-> "", error |-> "", message |-> "", details |-> "",
     errType |-> ""]

\* the locals of one run of the handler
Locals(p, r, o, l, c, il, t, tr, cm, te) ==
    [pc |-> p, req |-> r, outcome |-> o, log |-> l, clients |-> c, issueLabel |-> il,
     task |-> t, taskRuns |-> tr, comments |-> cm, taskError |-> te]

\* no second request
NoOther == Locals("none", NoRequest, NoOutcome, <<>>, {}, <<>>, NoTask, 0, <<>>, NoError)

\* new Response(JSON.stringify({error, details, type}), {status})
ErrorResponse(status, error, details, type) ==
    [kind |-> "response", status |-> status, error |-> error, message |-> "",
     details |-> details, errType |-> type]

\* new Response(JSON.stringify({message, details | taskResult}), {status: 200})
OkResponse(message, details) ==
    [kind |-> "response", status |-> "200", error |-> "", message |-> message,
     details |-> details, errType |-> ""]

\* the catch-all of the HTTP handler
CaughtResponse(err) ==
    ErrorResponse("500", "Error processing webhook", err.message, err.errType)

\* an error that leaves the callback
Raised(err) ==
    [kind |-> "raised", status |-> "", error |-> err.message, message |-> "",
     details |-> "", errType |-> err.errType]

\* a value the workflow callback returns
Returned(status, message, details) ==
    [kind |-> "returned", status |-> status, error |-> "", message |-> message,
     details |-> details, errType |-> ""]

\* how an error raised inside the request handling reaches the caller
Surface(e, err) == IF e = "http" THEN CaughtResponse(err) ELSE Raised(err)

InvalidWebhookResponse ==
    ErrorResponse("401", "Invalid webhook request",
                  "Failed to validate webhook signature or request", "")

InvalidWebhookError == Throw("Error", "Invalid webhook request")

\* IgnoredResponse sent as a client error
IgnoredResponseMutant ==
    ErrorResponse("400", "Event ignored", "Event type not supported", "")

IgnoredResponse == OkResponse("Event ignored", "Event type not supported")

IgnoredResult == Returned("ignored", "Event type not supported", "")

MissingIdError == Throw("Error", "Invalid payload: missing issue ID")

\* the address validateWebhookRequest is given
SourceIp(e, r) ==
    IF e = "http"
    THEN IF r.address # <<>>
         THEN <<[addr |-> r.address[1].addr, pad |-> FALSE]>>
         ELSE IF r.xRealIp # <<>> THEN r.xRealIp ELSE IpText("0.0.0.0")
    ELSE IF r.address # <<>> THEN r.address ELSE IpText("0.0.0.0")

Init ==
    /\ entry \in {"http", "workflow"}
    /\ envVars \in Environments
    /\ env = NoEnv
    /\ pc = "start"
    /\ req = NoRequest
    /\ outcome = NoOutcome
    /\ log = <<>>
    /\ clients = {}
    /\ issueLabel = <<>>
    /\ task = NoTask
    /\ taskRuns = 0
    /\ comments = <<>>
    /\ taskError = NoError
    /\ other = NoOther
    /\ ToolsIdle

\* const env = validateEnv(context.env)
ValidateEnv ==
    /\ pc = "start"
    /\ LET r == validateEnv(envVars)
       IN IF r.kind = "throw"
          THEN /\ pc' = "done"
               /\ outcome' = Raised(r)
               /\ env' = env
          ELSE /\ pc' = "listening"
               /\ env' = r.value
               /\ outcome' = outcome
    /\ UNCHANGED <<entry, envVars, req, log, clients, issueLabel, task, taskRuns,
                   comments, taskError>>
    /\ UNCHANGED <<other, toolVars>>

\* the request arrives: body, headers and client address are read
Receive ==
    /\ pc = "listening"
    /\ req' \in Requests
    /\ pc' = "received"
    /\ UNCHANGED <<entry, envVars, env, outcome, log, clients, issueLabel, task,
                   taskRuns, comments, taskError>>
    /\ UNCHANGED <<other, toolVars>>

\* validateWebhookRequest(headers, body, ip, env.linearWebhookSecret)
Authenticate ==
    /\ pc = "received"
    /\ log' = Append(log, "auth")
    /\ LET r == validateWebhookRequest(req.headers, req.body, SourceIp(entry, req),
                                       GetProp(env, "linearWebhookSecret"), Now)
       IN IF r.kind = "throw"
          THEN /\ pc' = "done"
               /\ outcome' = Surface(entry, r)
          ELSE IF ~r.value
          THEN /\ pc' = "done"
               /\ outcome' = IF entry = "http" THEN InvalidWebhookResponse
                              ELSE Raised(InvalidWebhookError)
          ELSE /\ pc' = "validated"
               /\ outcome' = outcome
    /\ UNCHANGED <<entry, envVars, env, req, clients, issueLabel, task, taskRuns,
                   comments, taskError>>
    /\ UNCHANGED <<other, toolVars>>

\* EventSupported without the checks of the action
EventSupportedMutant(payload) ==
    payload.type = "Issue" /\ payload.data.present /\ Truthy(payload.data.id)

\* !isIssueCreationEvent(payload) && !isIssueLabelUpdateEvent(payload) is false
EventSupported(payload) == isIssueCreationEvent(payload) \/ isIssueLabelUpdateEvent(payload)

\* Classify whose ignored branch builds the response without returning it
ClassifyMutant ==
    /\ pc = "validated"
    /\ log' = Append(log, "classify")
    /\ IF JsonParseThrows(req.body)
       THEN /\ pc' = "done"
            /\ outcome' = Surface(entry, Throw("SyntaxError", "Unexpected token in JSON"))
       ELSE IF ~EventSupported(req.body)
       THEN /\ pc' = "classified"
            /\ outcome' = IF entry = "http" THEN IgnoredResponse ELSE IgnoredResult
       ELSE /\ pc' = "classified"
            /\ outcome' = outcome
    /\ UNCHANGED <<entry, envVars, env, req, clients, issueLabel, task, taskRuns,
                   comments, taskError>>
    /\ UNCHANGED <<other, toolVars>>

\* const payload = JSON.parse(body); the two event predicates
Classify ==
    /\ pc = "validated"
    /\ log' = Append(log, "classify")
    /\ IF JsonParseThrows(req.body)
       THEN /\ pc' = "done"
            /\ outcome' = Surface(entry, Throw("SyntaxError", "Unexpected token in JSON"))
       ELSE IF ~EventSupported(req.body)
       THEN /\ pc' = "done"
            /\ outcome' = IF entry = "http" THEN IgnoredResponse ELSE IgnoredResult
       ELSE /\ pc' = "classified"
            /\ outcome' = outcome
    /\ UNCHANGED <<entry, envVars, env, req, clients, issueLabel, task, taskRuns,
                   comments, taskError>>
    /\ UNCHANGED <<other, toolVars>>

\* IssueIdMissing testing for an absent id only
IssueIdMissingMutant(data) == data.id = UNDEF

\* !issueId
IssueIdMissing(data) == ~Truthy(data.id)

\* const { id: issueId, title, description, labels } = payload.data; if (!issueId) throw
CheckId ==
    /\ pc = "classified"
    /\ log' = Append(log, "idcheck")
    /\ IF ~req.body.data.present
       THEN /\ pc' = "done"
            /\ outcome' = Surface(entry, Throw("TypeError", "Cannot destructure payload.data"))
       ELSE IF IssueIdMissing(req.body.data)
       THEN /\ pc' = "done"
            /\ outcome' = Surface(entry, MissingIdError)
       ELSE /\ pc' = "idChecked"
            /\ outcome' = outcome
    /\ UNCHANGED <<entry, envVars, env, req, clients, issueLabel, task, taskRuns,
                   comments, taskError>>
    /\ UNCHANGED <<other, toolVars>>

RoleOrder == <<"manager", "bug", "feature", "improvement">>

\* the property of env each entry point reads for a role's API key
ApiKeyField(e, role) ==
    IF e = "http"
    THEN CASE role = "manager" -> "managerLinearApiKey"
           [] role = "bug" -> "bugLinearApiKey"
           [] role = "feature" -> "featureLinearApiKey"
           [] role = "improvement" -> "improvementLinearApiKey"
    ELSE CASE role = "manager" -> "managerApiKey"
           [] role = "bug" -> "bugApiKey"
           [] role = "feature" -> "featureApiKey"
           [] role = "improvement" -> "improvementApiKey"

\* the four initializeLinearClient calls, in order; sdkFails is the role (if any)
\* for which new LinearClient raises
InitClients ==
    /\ pc = "idChecked"
    /\ log' = Append(log, "clients")
    /\ \E sdkFails \in {"none", "manager", "bug", "feature", "improvement"} :
         LET res == [i \in 1..4 |->
                        initializeLinearClient(GetProp(env, ApiKeyField(entry, RoleOrder[i])),
                                               RoleOrder[i], RoleOrder[i] # sdkFails)]
             bad == {i \in 1..4 : res[i].kind = "throw"}
         IN IF bad # {}
            THEN LET first == CHOOSE i \in bad : \A j \in bad : i <= j
                 IN /\ pc' = "done"
                    /\ outcome' = Surface(entry, res[first])
                    /\ clients' = {RoleOrder[i] : i \in 1..(first - 1)}
            ELSE /\ pc' = "clientsReady"
                 /\ outcome' = outcome
                 /\ clients' = {RoleOrder[i] : i \in 1..4}
    /\ UNCHANGED <<entry, envVars, env, req, issueLabel, task, taskRuns, comments,
                   taskError>>
    /\ UNCHANGED <<other, toolVars>>

\* FirstLabel reading the last label of the sequence
FirstLabelMutant(data) ==
    IF data.labels.present /\ Len(data.labels.nodes) > 0
    THEN data.labels.nodes[Len(data.labels.nodes)] ELSE <<>>

\* labels?.nodes?.[0]?.name || ""
FirstLabel(data) ==
    IF data.labels.present /\ Len(data.labels.nodes) > 0 THEN data.labels.nodes[1] ELSE <<>>

\* const issueLabel = firstLabel.toLowerCase()
ExtractLabel ==
    /\ pc = "clientsReady"
    /\ log' = Append(log, "label")
    /\ issueLabel' = ToLowerCase(FirstLabel(req.body.data))
    /\ pc' = "routed"
    /\ UNCHANGED <<entry, envVars, env, req, outcome, clients, task, taskRuns, comments,
                   taskError>>
    /\ UNCHANGED <<other, toolVars>>

\* TaskAgents with the specialized agents only
TaskAgentsMutant == <<"bug-agent", "feature-agent", "improvement-agent">>

TaskAgents == <<"manager-agent", "bug-agent", "feature-agent", "improvement-agent">>

\* the task prompt's rule for the manager agent: "If the label is 'bug', 'feature',
\* or 'improvement', assign to the corresponding agent.  If the label is invalid,
\* request a valid label."
AssignedAgent(label) ==
    CASE label = <<"b", "u", "g">> -> "bug-agent"
      [] label = <<"f", "e", "a", "t", "u", "r", "e">> -> "feature-agent"
      [] label = <<"i", "m", "p", "r", "o", "v", "e", "m", "e", "n", "t">> ->
            "improvement-agent"
      [] OTHER -> "none"

\* what task.run() can do: return a text or raise
TaskResult(ok) == IF ok THEN Return("analysis text") ELSE Throw("Error", "Task run failed")

\* RunTask with the notification in a finally block instead of the catch block
RunTaskMutant ==
    /\ pc = "routed"
    /\ log' = Append(log, "dispatch")
    /\ task' = [issueId |-> req.body.data.id, title |-> req.body.data.title,
                label |-> issueLabel, agents |-> TaskAgents]
    /\ taskRuns' = taskRuns + 1
    /\ \E ok \in BOOLEAN :
         LET r == TaskResult(ok) IN
         /\ pc' = "taskFailed"
         /\ taskError' = IF r.kind = "throw" THEN r ELSE taskError
         /\ outcome' = outcome
    /\ UNCHANGED <<entry, envVars, env, req, clients, issueLabel, comments>>
    /\ UNCHANGED <<other, toolVars>>

\* context.agents.task({...}) and task.run()
RunTask ==
    /\ pc = "routed"
    /\ log' = Append(log, "dispatch")
    /\ task' = [issueId |-> req.body.data.id, title |-> req.body.data.title,
                label |-> issueLabel, agents |-> TaskAgents]
    /\ taskRuns' = taskRuns + 1
    /\ \E ok \in BOOLEAN :
         LET r == TaskResult(ok) IN
         IF r.kind = "throw"
         THEN /\ pc' = "taskFailed"
              /\ taskError' = r
              /\ outcome' = outcome
         ELSE /\ pc' = "done"
              /\ taskError' = taskError
              /\ outcome' = IF entry = "http"
                             THEN OkResponse("Issue processed successfully", r.value)
                             ELSE Returned("", "Issue processed successfully", r.value)
    /\ UNCHANGED <<entry, envVars, env, req, clients, issueLabel, comments>>
    /\ UNCHANGED <<other, toolVars>>

\* what errorComment.invoke() can do: client.createComment resolves or rejects
CommentResult(ok) ==
    IF ok THEN Return("Comment added successfully") ELSE Throw("Error", "Comment post failed")

\* the error that leaves the catch block around task.run()
\*   http:     try { await errorComment.invoke(..) } catch { log }; throw taskError
\*   workflow: await errorComment.invoke(..); throw error
AfterNotify(e, taskErr, commentResult) ==
    IF e = "http" THEN taskErr
    ELSE IF commentResult.kind = "throw" THEN commentResult ELSE taskErr

\* Notify running the task again after the comment
NotifyMutant ==
    /\ pc = "taskFailed"
    /\ log' = Append(log, "notify")
    /\ \E ok \in BOOLEAN :
         LET c == CommentResult(ok) IN
         comments' = Append(comments, [issueId |-> req.body.data.id,
                                       client |-> "manager", agentName |-> "Manager Bot",
                                       posted |-> c.kind = "return"])
    /\ pc' = "routed"
    /\ UNCHANGED <<entry, envVars, env, req, outcome, clients, issueLabel, task, taskRuns,
                   taskError>>
    /\ UNCHANGED <<other, toolVars>>

\* the catch block around task.run(): one comment through the manager client
Notify ==
    /\ pc = "taskFailed"
    /\ log' = Append(log, "notify")
    /\ \E ok \in BOOLEAN :
         LET c == CommentResult(ok) IN
         /\ comments' = Append(comments, [issueId |-> req.body.data.id,
                                          client |-> "manager", agentName |-> "Manager Bot",
                                          posted |-> c.kind = "return"])
         /\ outcome' = Surface(entry, AfterNotify(entry, taskError, c))
    /\ pc' = "done"
    /\ UNCHANGED <<entry, envVars, env, req, clients, issueLabel, task, taskRuns,
                   taskError>>
    /\ UNCHANGED <<other, toolVars>>

Next ==
    \/ ValidateEnv
    \/ Receive
    \/ Authenticate
    \/ Classify
    \/ CheckId
    \/ InitClients
    \/ ExtractLabel
    \/ RunTask
    \/ Notify

Spec == Init /\ [][Next]_vars

\* The handler is a chain of awaits: while a step can be taken it is taken, every
\* collaborator call settling (resolving or rejecting).
FairSpec == Init /\ [][Next]_vars /\ WF_vars(Next)

(***************************************************************************)
(* The statements after classification (the id re-check and what follows)  *)
(* run on every payload.data of the declared type LinearWebhookPayload,    *)
(* whatever its id and title.                                              *)
(***************************************************************************)
\* issue payloads whose data object is present, signed and sent by the tracker
IdCheckRequests ==
    {Request(HmacSha256Hex(ObjectBody(Timestamp(Now), p), EnvValue("LINEAR_WEBHOOK_SECRET")),
             ObjectBody(Timestamp(Now), p), IpText("35.231.147.226"), <<>>) :
        p \in {q \in IssuePayloads : q.data.present}}

\* the handler stands right after the event predicates, with every variable set
InitIdCheck ==
    /\ entry \in {"http", "workflow"}
    /\ envVars = [key \in RequiredEnvKeys \cup OptionalEnvKeys |-> EnvValue(key)]
    /\ env = validateEnv(envVars).value
    /\ pc = "classified"
    /\ req \in IdCheckRequests
    /\ outcome = NoOutcome
    /\ log = <<"auth", "classify">>
    /\ clients = {}
    /\ issueLabel = <<>>
    /\ task = NoTask
    /\ taskRuns = 0
    /\ comments = <<>>
    /\ taskError = NoError
    /\ other = NoOther
    /\ ToolsIdle

NextIdCheck ==
    \/ CheckId
    \/ InitClients
    \/ ExtractLabel
    \/ RunTask
    \/ Notify

SpecIdCheck == InitIdCheck /\ [][NextIdCheck]_vars

(***************************************************************************)
(* Two requests handled at the same time.  Every await of the handler is a *)
(* point where the other request may run; each request has its own locals, *)
(* and env is the one object validateEnv returned.                         *)
(***************************************************************************)
\* a signed body from the tracker
Signed(body) ==
    Request(HmacSha256Hex(body, EnvValue("LINEAR_WEBHOOK_SECRET")), body,
            IpText("35.231.147.226"), <<>>)

IssueData(id, title, labels) ==
    [present |-> TRUE, id |-> id, title |-> title,
     labels |-> [present |-> TRUE, nodes |-> labels]]

\* requests of every outcome class, for two different items
ConcurrentRequests ==
    {Signed(ObjectBody(Timestamp(Now),
                       Payload("Issue", "create",
                               IssueData("ISS-1", "Crash on save", <<LabelBug>>), FALSE))),
     Signed(ObjectBody(Timestamp(Now),
                       Payload("Issue", "update",
                               IssueData("ISS-2", UNDEF, <<LabelUrgent>>), TRUE))),
     Signed(ObjectBody(Timestamp(Now), Payload("Comment", "create", NoData, FALSE))),
     Signed(OddBody("malformed")),
     Request(EmptySignature,
             ObjectBody(Timestamp(Now),
                        Payload("Issue", "create",
                                IssueData("ISS-1", "Crash on save", <<LabelBug>>), FALSE)),
             IpText("35.231.147.226"), <<>>),
     [Signed(ObjectBody(Timestamp(Now), Payload("Comment", "create", NoData, FALSE)))
         EXCEPT !.address = IpText("203.0.113.9")],
     Signed(ObjectBody(Timestamp(Now - WINDOW_MS - 1),
                       Payload("Comment", "create", NoData, FALSE)))}

InitConcurrent ==
    /\ entry \in {"http", "workflow"}
    /\ envVars = [key \in RequiredEnvKeys \cup OptionalEnvKeys |-> EnvValue(key)]
    /\ env = NoEnv
    /\ pc = "start"
    /\ req = NoRequest
    /\ outcome = NoOutcome
    /\ log = <<>>
    /\ clients = {}
    /\ issueLabel = <<>>
    /\ task = NoTask
    /\ taskRuns = 0
    /\ comments = <<>>
    /\ taskError = NoError
    /\ other = Locals("listening", NoRequest, NoOutcome, <<>>, {}, <<>>, NoTask, 0, <<>>,
                      NoError)
    /\ ToolsIdle

\* a request arrives
ReceiveConcurrent ==
    /\ pc = "listening"
    /\ req' \in ConcurrentRequests
    /\ pc' = "received"
    /\ UNCHANGED <<entry, envVars, env, outcome, log, clients, issueLabel, task,
                   taskRuns, comments, taskError>>
    /\ UNCHANGED <<other, toolVars>>

\* Switch with issueLabel held in one variable shared by the two requests
SwitchMutant ==
    /\ pc # "start" /\ env # NoEnv
    /\ other' = Locals(pc, req, outcome, log, clients, issueLabel, task, taskRuns,
                       comments, taskError)
    /\ pc' = other.pc
    /\ req' = other.req
    /\ outcome' = other.outcome
    /\ log' = other.log
    /\ clients' = other.clients
    /\ issueLabel' = issueLabel
    /\ task' = other.task
    /\ taskRuns' = other.taskRuns
    /\ comments' = other.comments
    /\ taskError' = other.taskError
    /\ UNCHANGED <<entry, envVars, env>>
    /\ UNCHANGED toolVars

\* the running request is suspended at an await and the other one continues:
\* each resumes with the locals it had
Switch ==
    /\ pc # "start" /\ env # NoEnv
    /\ other' = Locals(pc, req, outcome, log, clients, issueLabel, task, taskRuns,
                       comments, taskError)
    /\ pc' = other.pc
    /\ req' = other.req
    /\ outcome' = other.outcome
    /\ log' = other.log
    /\ clients' = other.clients
    /\ issueLabel' = other.issueLabel
    /\ task' = other.task
    /\ taskRuns' = other.taskRuns
    /\ comments' = other.comments
    /\ taskError' = other.taskError
    /\ UNCHANGED <<entry, envVars, env>>
    /\ UNCHANGED toolVars

NextConcurrent ==
    \/ ValidateEnv
    \/ ReceiveConcurrent
    \/ Authenticate
    \/ Classify
    \/ CheckId
    \/ InitClients
    \/ ExtractLabel
    \/ RunTask
    \/ Notify
    \/ Switch

SpecConcurrent == InitConcurrent /\ [][NextConcurrent]_vars

(***************************************************************************)
(* One request given to both entry points: first the HTTP handler          *)
(* (api/webhook.ts), then the workflow (index.ts), with the same           *)
(* environment and clock.                                                  *)
(***************************************************************************)
InitPair ==
    /\ entry = "http"
    /\ envVars \in Environments
    /\ env = NoEnv
    /\ pc = "start"
    /\ req = NoRequest
    /\ outcome = NoOutcome
    /\ log = <<>>
    /\ clients = {}
    /\ issueLabel = <<>>
    /\ task = NoTask
    /\ taskRuns = 0
    /\ comments = <<>>
    /\ taskError = NoError
    /\ other = NoOther
    /\ ToolsIdle

\* the HTTP handler has answered; the workflow is given the same request
SecondEntry ==
    /\ entry = "http" /\ pc = "done" /\ env # NoEnv /\ other.pc = "none"
    /\ other' = Locals(pc, req, outcome, log, clients, issueLabel, task, taskRuns,
                       comments, taskError)
    /\ entry' = "workflow"
    /\ env' = validateEnv(envVars).value
    /\ pc' = "received"
    /\ req' = req
    /\ outcome' = NoOutcome
    /\ log' = <<>>
    /\ clients' = {}
    /\ issueLabel' = <<>>
    /\ task' = NoTask
    /\ taskRuns' = 0
    /\ comments' = <<>>
    /\ taskError' = NoError
    /\ UNCHANGED envVars
    /\ UNCHANGED toolVars

NextPair ==
    \/ ValidateEnv
    \/ Receive
    \/ Authenticate
    \/ Classify
    \/ CheckId
    \/ InitClients
    \/ ExtractLabel
    \/ RunTask
    \/ Notify
    \/ SecondEntry

SpecPair == InitPair /\ [][NextPair]_vars

(***************************************************************************)
(* One invocation of a priority tool against the tracker.                  *)
(***************************************************************************)
\* argument values: the declared levels of every tool and values outside them
ArgValues ==
    {"critical", "high", "medium", "low", "small", "large", "xlarge", "urgent",
     "constructor", "name", "length"}

PipelineOff ==
    /\ entry = "none"
    /\ envVars = <<>>
    /\ env = NoEnv
    /\ pc = "off"
    /\ req = NoRequest
    /\ outcome = NoOutcome
    /\ log = <<>>
    /\ clients = {}
    /\ issueLabel = <<>>
    /\ task = NoTask
    /\ taskRuns = 0
    /\ comments = <<>>
    /\ taskError = NoError
    /\ other = NoOther

InitPriority ==
    /\ PipelineOff
    /\ tool \in PriorityTools
    /\ toolArgs \in [issueId : {"ISS-1"}, d1 : ArgValues, d2 : ArgValues,
                      reason : {"customer impact"}]
    /\ tpc = "start"
    /\ priority = Unset
    /\ trackerPriority \in {JsNumber(0), JsNumber(2)}
    /\ trackerUpdates = <<>>
    /\ trackerComments = <<>>
    /\ toolResult = NoResult

\* the value invoke() resolves to
ToolReturn(t, args, p) ==
    [kind |-> "return", newPriority |-> p, d1 |-> args.d1, d2 |-> args.d2]

\* const issue = await client.issue(issueId); updatePriority: if (!issue) throw
ToolFetchIssue ==
    /\ \/ tool \in UpdatePriorityTools /\ tpc = "start"
       \/ tool = "assessment" /\ tpc = "scored"
    /\ \E r \in {"found", "null", "reject"} :
         IF r = "found"
         THEN /\ tpc' = "fetched"
              /\ toolResult' = toolResult
         ELSE /\ tpc' = "done"
              /\ toolResult' =
                    IF r = "reject"
                    THEN ToolError(tool, Throw("Error", "Tracker request failed"))
                    ELSE IF tool \in UpdatePriorityTools
                    THEN ToolError(tool, Throw("Error", "Issue ISS-1 not found"))
                    ELSE Throw("TypeError", "Cannot read properties of null")
    /\ UNCHANGED <<tool, toolArgs, priority, trackerPriority, trackerUpdates,
                   trackerComments>>
    /\ UNCHANGED pipelineVars

\* const priority = priorityMatrix[..]..
ToolScore ==
    /\ \/ tool \in UpdatePriorityTools /\ tpc = "fetched"
       \/ tool = "assessment" /\ tpc = "start"
    /\ LET r == ScorePriority(tool, toolArgs.d1, toolArgs.d2)
       IN IF r.kind = "throw"
          THEN /\ tpc' = "done"
               /\ toolResult' = ToolError(tool, r)
               /\ priority' = priority
          ELSE /\ tpc' = "scored"
               /\ toolResult' = toolResult
               /\ priority' = r.value
    /\ UNCHANGED <<tool, toolArgs, trackerPriority, trackerUpdates, trackerComments>>
    /\ UNCHANGED pipelineVars

\* ToolUpdateIssue of a tool that goes on to the comment without awaiting the update
ToolUpdateIssueMutant ==
    /\ \/ tool \in UpdatePriorityTools /\ tpc = "scored"
       \/ tool = "assessment" /\ tpc = "fetched"
    /\ tpc' = IF tool \in UpdatePriorityTools THEN "updated" ELSE "done"
    /\ toolResult' = IF tool \in UpdatePriorityTools THEN toolResult
                       ELSE ToolReturn(tool, toolArgs, priority)
    /\ UNCHANGED <<tool, toolArgs, priority, trackerPriority, trackerUpdates,
                   trackerComments>>
    /\ UNCHANGED pipelineVars

\* await issue.update({ priority }); the assessment tool returns after it
ToolUpdateIssue ==
    /\ \/ tool \in UpdatePriorityTools /\ tpc = "scored"
       \/ tool = "assessment" /\ tpc = "fetched"
    /\ \E ok \in BOOLEAN :
         IF ok
         THEN /\ trackerPriority' = priority
              /\ trackerUpdates' = Append(trackerUpdates, priority)
              /\ tpc' = IF tool \in UpdatePriorityTools THEN "updated" ELSE "done"
              /\ toolResult' = IF tool \in UpdatePriorityTools THEN toolResult
                                 ELSE ToolReturn(tool, toolArgs, priority)
         ELSE /\ tpc' = "done"
              /\ toolResult' = ToolError(tool, Throw("Error", "Issue update failed"))
              /\ UNCHANGED <<trackerPriority, trackerUpdates>>
    /\ UNCHANGED <<tool, toolArgs, priority, trackerComments>>
    /\ UNCHANGED pipelineVars

\* ToolComment of a tool that catches a failed comment and returns normally
ToolCommentMutant ==
    /\ tool \in UpdatePriorityTools /\ tpc = "updated"
    /\ \E ok \in BOOLEAN :
         /\ trackerComments' =
               IF ok
               THEN Append(trackerComments,
                           [issueId |-> toolArgs.issueId, agentName |-> BotName(tool),
                            priority |-> priority, d1 |-> toolArgs.d1, d2 |-> toolArgs.d2,
                            reason |-> toolArgs.reason])
               ELSE trackerComments
         /\ toolResult' = ToolReturn(tool, toolArgs, priority)
    /\ tpc' = "done"
    /\ UNCHANGED <<tool, toolArgs, priority, trackerPriority, trackerUpdates>>
    /\ UNCHANGED pipelineVars

\* await createCommentTool(client, bot).invoke({issueId, content}); return {...}
ToolComment ==
    /\ tool \in UpdatePriorityTools /\ tpc = "updated"
    /\ \E ok \in BOOLEAN :
         IF ok
         THEN /\ trackerComments' =
                    Append(trackerComments,
                           [issueId |-> toolArgs.issueId, agentName |-> BotName(tool),
                            priority |-> priority, d1 |-> toolArgs.d1, d2 |-> toolArgs.d2,
                            reason |-> toolArgs.reason])
              /\ toolResult' = ToolReturn(tool, toolArgs, priority)
         ELSE /\ trackerComments' = trackerComments
              /\ toolResult' = ToolError(tool, Throw("Error", "Comment post failed"))
    /\ tpc' = "done"
    /\ UNCHANGED <<tool, toolArgs, priority, trackerPriority, trackerUpdates>>
    /\ UNCHANGED pipelineVars

NextPriority ==
    \/ ToolFetchIssue
    \/ ToolScore
    \/ ToolUpdateIssue
    \/ ToolComment

SpecPriority == InitPriority /\ [][NextPriority]_vars

(***************************************************************************)
(* Properties of the pipeline.                                             *)
(***************************************************************************)
\* a request has been received
HasRequest == pc \notin {"start", "listening"} /\ Truthy(env.linearWebhookSecret)

IpCheckHolds == verifyWebhookIp(SourceIp(entry, req))

SignatureCheckHolds ==
    req.headers.signature = HmacSha256Hex(req.body, env.linearWebhookSecret)

\* the body carries a webhookTimestamp within the window around the clock
TimestampCheckHolds ==
    /\ req.body.json = "object"
    /\ req.body.webhookTimestamp.present
    /\ req.body.webhookTimestamp.value - Now <= WINDOW_MS
    /\ Now - req.body.webhookTimestamp.value <= WINDOW_MS

AllChecksHold == IpCheckHolds /\ SignatureCheckHolds /\ TimestampCheckHolds

\* the message of the error the caller is given
ReportedMessage == IF outcome.kind = "response" THEN outcome.details ELSE outcome.error

\* the run ended as a failure: HTTP 500, or an error raised out of the workflow
EndedAsFailure ==
    \/ outcome.kind = "response" /\ outcome.status = "500"
    \/ outcome.kind = "raised"

\* C1: for every request and non-empty secret, validateWebhookRequest returns true
\* exactly when the IP, signature and timestamp checks all hold, and returns false
\* (never raises) when one of them does not hold, also for a body without a usable
\* webhookTimestamp.
C1_ValidateIsConjunction ==
    HasRequest =>
        validateWebhookRequest(req.headers, req.body, SourceIp(entry, req),
                               env.linearWebhookSecret, Now) = Return(AllChecksHold)

\* C2: when one of the three checks does not hold, the run ends with the
\* authentication error (HTTP 401 "Invalid webhook request"; the error of that
\* message raised by the workflow step) and reaches no later stage.
C2_FailedCheckEndsUnauthorized ==
    (HasRequest /\ pc # "received" /\ ~AllChecksHold) =>
        /\ pc = "done"
        /\ outcome = IF entry = "http" THEN InvalidWebhookResponse
                      ELSE Raised(InvalidWebhookError)
        /\ log = <<"auth">>
        /\ clients = {} /\ taskRuns = 0 /\ comments = <<>>

\* C3: when task.run() raised, the finished run has made exactly one notification
\* attempt, for the item's id, and ended as a failure that carries the message of
\* the task's error.
C3_OneNotificationThenOriginalError ==
    (pc = "done" /\ taskError.kind = "throw") =>
        /\ Len(comments) = 1
        /\ comments[1].issueId = req.body.data.id
        /\ EndedAsFailure
        /\ ReportedMessage = taskError.message

\* C4: when task.run() raised E and the notification comment then failed with N,
\* the error reported to the caller is E, in the HTTP handler and in the workflow.
C4_NotificationFailureDoesNotMask ==
    (pc = "done" /\ taskError.kind = "throw" /\ Len(comments) = 1
        /\ ~comments[1].posted) =>
        ReportedMessage = taskError.message

\* a tracker-sent issue-created event with id, title and first label "Bug"
IsBugCreation ==
    /\ AllChecksHold
    /\ req.body.type = "Issue" /\ req.body.action = "create"
    /\ req.body.data.present
    /\ Truthy(req.body.data.id) /\ Truthy(req.body.data.title)
    /\ FirstLabel(req.body.data) = LabelBug

\* the run ended because new LinearClient raised
SdkFailed ==
    \E i \in 1..4 : ReportedMessage = FailedClientMessage(RoleOrder[i])

\* C5: with every required environment variable set, a run for a valid
\* issue-created event labelled "Bug" invokes the task runner; no earlier step
\* ends it (the tracker SDK's constructor not failing).
C5_BugCreationIsDispatched ==
    (pc = "done" /\ HasRequest /\ IsBugCreation /\ ~SdkFailed) => taskRuns = 1

StageRank(stage) ==
    CASE stage = "auth" -> 1
      [] stage = "classify" -> 2
      [] stage = "idcheck" -> 3
      [] stage = "clients" -> 4
      [] stage = "label" -> 5
      [] stage = "dispatch" -> 6
      [] stage = "notify" -> 7

Ran(stage) == \E i \in DOMAIN log : log[i] = stage

\* C9: the stages of a run happen one after another in the order authentication,
\* classification, label extraction, dispatch, none before its predecessor has
\* completed; the task runner is invoked only after authentication succeeded and
\* one of the two event predicates accepted the payload.
C9_StagesInOrder ==
    /\ \A i, j \in DOMAIN log : i < j => StageRank(log[i]) < StageRank(log[j])
    /\ Ran("classify") => Ran("auth")
    /\ Ran("label") => Ran("classify")
    /\ Ran("dispatch") => Ran("label")
    /\ (taskRuns > 0) = Ran("dispatch")
    /\ taskRuns > 0 =>
          /\ AllChecksHold
          /\ isIssueCreationEvent(req.body) \/ isIssueLabelUpdateEvent(req.body)

C9_Witness == pc = "done" /\ taskRuns = 1 /\ log[Len(log)] = "dispatch"

\* C10: an authenticated event that neither event predicate accepts ends as
\* Ignored, a non-error outcome (HTTP 200 / a returned value, "Event type not
\* supported"); no client is initialized, no task is run, no comment is posted.
C10_UnsupportedEventIgnored ==
    (HasRequest /\ AllChecksHold
        /\ ~isIssueCreationEvent(req.body) /\ ~isIssueLabelUpdateEvent(req.body)) =>
        /\ clients = {} /\ taskRuns = 0 /\ comments = <<>>
        /\ pc \in {"received", "validated", "done"}
        /\ pc = "done" =>
              /\ outcome.kind \in {"response", "returned"}
              /\ outcome.kind = "response" =>
                    outcome.status = "200" /\ outcome.details = "Event type not supported"
              /\ outcome.kind = "returned" =>
                    outcome.message = "Event type not supported"
              /\ outcome.error = ""

C10_Witness ==
    /\ pc = "done" /\ Ran("classify") /\ AllChecksHold
    /\ ~isIssueCreationEvent(req.body) /\ ~isIssueLabelUpdateEvent(req.body)
    /\ outcome.kind = "response" /\ outcome.status = "200"

(***************************************************************************)
(* Properties of the priority tools.                                       *)
(***************************************************************************)
Levels == {"critical", "high", "medium", "low"}

\* the Bug matrix of the design: rows impact, columns urgency
DesignBugMatrix ==
    [critical |-> [critical |-> 1, high |-> 1, medium |-> 2, low |-> 2],
     high     |-> [critical |-> 1, high |-> 2, medium |-> 2, low |-> 3],
     medium   |-> [critical |-> 2, high |-> 2, medium |-> 3, low |-> 3],
     low      |-> [critical |-> 2, high |-> 3, medium |-> 3, low |-> 4]]

\* the Feature matrix of the design: rows businessValue, columns implementationEffort
DesignFeatureMatrix ==
    [critical |-> [small |-> 1, medium |-> 1, large |-> 2, xlarge |-> 2],
     high     |-> [small |-> 1, medium |-> 2, large |-> 2, xlarge |-> 3],
     medium   |-> [small |-> 2, medium |-> 2, large |-> 3, xlarge |-> 3],
     low      |-> [small |-> 3, medium |-> 3, large |-> 4, xlarge |-> 4]]

\* the Improvement matrix of the design: rows technicalImpact, columns implementationRisk
DesignImprovementMatrix ==
    [critical |-> [low |-> 1, medium |-> 1, high |-> 2],
     high     |-> [low |-> 1, medium |-> 2, high |-> 3],
     medium   |-> [low |-> 2, medium |-> 3, high |-> 3],
     low      |-> [low |-> 3, medium |-> 3, high |-> 4]]

DesignMatrix(t) ==
    CASE t = "bug" -> DesignBugMatrix
      [] t = "feature" -> DesignFeatureMatrix
      [] t = "improvement" -> DesignImprovementMatrix
      [] t = "assessment" -> DesignBugMatrix

\* the arguments are levels the tool declares
ArgsDeclared ==
    /\ toolArgs.d1 \in DOMAIN DesignMatrix(tool)
    /\ toolArgs.d2 \in DOMAIN DesignMatrix(tool)[toolArgs.d1]

DesignPriority == JsNumber(DesignMatrix(tool)[toolArgs.d1][toolArgs.d2])

\* C6: for each updatePriority tool and every declared pair of levels, the priority
\* the tool computes, and the one it persists, is the entry of the design's matrix.
C6_UpdatePriorityMatchesDesign ==
    (tool \in UpdatePriorityTools /\ ArgsDeclared) =>
        /\ priority # Unset => priority = DesignPriority
        /\ \A i \in DOMAIN trackerUpdates : trackerUpdates[i] = DesignPriority
        /\ tpc \in {"updated", "done"} /\ trackerUpdates # <<>> =>
              trackerPriority = DesignPriority

C6_Witness ==
    /\ tool \in UpdatePriorityTools /\ ArgsDeclared
    /\ tpc = "done" /\ toolResult.kind = "return"
    /\ trackerUpdates = <<DesignPriority>>
    /\ toolArgs.d1 = "high" /\ toolArgs.d2 = "critical"

\* C7: every priority a priority tool persists is an integer 1..4; for a pair
\* outside the declared levels the tool computes the default 3 and the lookup
\* does not raise.
C7_PriorityInRangeWithDefault ==
    /\ \A i \in DOMAIN trackerUpdates :
          trackerUpdates[i].t = "number" /\ trackerUpdates[i].n \in 1..4
    /\ (tool \in PriorityTools /\ ~ArgsDeclared) =>
          /\ priority \in {Unset, JsNumber(DEFAULT_PRIORITY)}
          /\ ~(toolResult.kind = "throw" /\ toolResult.errType = "TypeError"
                  /\ toolResult.message = "Cannot read properties of undefined")

\* C8: the assessment tool (the priority tool of the Bug and Manager tool sets)
\* computes, for every impact and urgency, the entry of the design's Bug matrix.
C8_AssessmentMatchesBugMatrix ==
    (tool = "assessment" /\ toolArgs.d1 \in Levels /\ toolArgs.d2 \in Levels
        /\ priority # Unset) =>
        priority = JsNumber(DesignBugMatrix[toolArgs.d1][toolArgs.d2])

(***************************************************************************)
(* Properties of the id re-check.                                          *)
(***************************************************************************)
\* the payload error as each entry point surfaces it
PayloadFault ==
    IF entry = "http"
    THEN [kind |-> "response", status |-> "500", error |-> "Error processing webhook",
          message |-> "", details |-> "Invalid payload: missing issue ID",
          errType |-> "Error"]
    ELSE [kind |-> "raised", status |-> "", error |-> "Invalid payload: missing issue ID",
          message |-> "", details |-> "", errType |-> "Error"]

\* C11: after classification the id is checked again; an empty or missing id ends
\* the run with the payload error "Invalid payload: missing issue ID" (HTTP 500; the
\* error raised by the workflow), and no run whose id is empty or missing
\* initializes a client or dispatches.
C11_MissingIdIsPayloadFault ==
    /\ (Ran("idcheck") /\ req.body.data.id \in {UNDEF, ""}) =>
          /\ pc = "done"
          /\ outcome = PayloadFault
          /\ log = <<"auth", "classify", "idcheck">>
          /\ clients = {} /\ taskRuns = 0 /\ comments = <<>>
    /\ (Ran("clients") \/ Ran("dispatch")) =>
          Ran("idcheck") /\ req.body.data.id \notin {UNDEF, ""}

C11_Witness ==
    /\ pc = "done" /\ Ran("idcheck") /\ req.body.data.id = ""
    /\ outcome.kind = "response" /\ outcome.status = "500"

(***************************************************************************)
(* Properties of label extraction.                                         *)
(***************************************************************************)
\* the three category names, in lower case
CategoryNames ==
    {<<"b", "u", "g">>, <<"f", "e", "a", "t", "u", "r", "e">>,
     <<"i", "m", "p", "r", "o", "v", "e", "m", "e", "n", "t">>}

\* a label name in lower case, letter by letter
LowerCased(name) ==
    CASE name = <<"B", "u", "g">> -> <<"b", "u", "g">>
      [] name = <<"B", "U", "G">> -> <<"b", "u", "g">>
      [] name = <<"I", "m", "p", "r", "o", "v", "e", "m", "e", "n", "t">> ->
            <<"i", "m", "p", "r", "o", "v", "e", "m", "e", "n", "t">>
      [] name = <<"M", "a", "n", "a", "g", "e", "r">> ->
            <<"m", "a", "n", "a", "g", "e", "r">>
      [] OTHER -> name

\* the lower-cased name of the item's first label, the empty string without one
RoutingInput ==
    IF req.body.data.labels.present /\ req.body.data.labels.nodes # <<>>
    THEN LowerCased(Head(req.body.data.labels.nodes))
    ELSE <<>>

\* an authenticated event one of the two predicates accepts
AcceptedEvent ==
    /\ HasRequest /\ AllChecksHold
    /\ isIssueCreationEvent(req.body) \/ isIssueLabelUpdateEvent(req.body)

\* C12: an accepted event whose first label is none of bug, feature, improvement
\* (or that has no label) raises nothing because of the label: the run dispatches
\* the task with the manager agent, and unless the task itself fails the outcome
\* is a success (the tracker SDK's constructor not failing).
C12_UnknownLabelStillDispatched ==
    (pc = "done" /\ AcceptedEvent /\ RoutingInput \notin CategoryNames /\ ~SdkFailed) =>
        /\ taskRuns = 1
        /\ Len(task.agents) > 0 /\ task.agents[1] = "manager-agent"
        /\ taskError.kind # "throw" =>
              \/ outcome.kind = "response" /\ outcome.status = "200"
              \/ outcome.kind = "returned"

\* C13: the routing input is the lower-cased name of the first label, the empty
\* string when the item has no label; later labels do not change it, and "Bug",
\* "BUG" and "bug" as first label give the same input.
C13_RoutingInputIsFirstLabelLowered ==
    /\ Ran("label") => issueLabel = RoutingInput
    /\ taskRuns > 0 => task.label = RoutingInput
    /\ (Ran("label") /\ req.body.data.labels.present
           /\ req.body.data.labels.nodes # <<>>
           /\ Head(req.body.data.labels.nodes)
                 \in {<<"B", "u", "g">>, <<"B", "U", "G">>, <<"b", "u", "g">>}) =>
          issueLabel = <<"b", "u", "g">>

C13_Witness ==
    /\ Ran("dispatch")
    /\ req.body.data.labels.present /\ Len(req.body.data.labels.nodes) = 2
    /\ req.body.data.labels.nodes[1] = <<"B", "U", "G">>
    /\ req.body.data.labels.nodes[2] = <<"u", "r", "g", "e", "n", "t">>
    /\ task.label = <<"b", "u", "g">>

(***************************************************************************)
(* Properties of the event predicates.                                     *)
(***************************************************************************)
\* the request body parsed to an object
BodyParsed == pc \notin {"start", "listening"} /\ req.body.json = "object"

\* classification ended the run with the Ignored outcome
EndedIgnored ==
    /\ pc = "done" /\ log = <<"auth", "classify">>
    /\ outcome = IF entry = "http"
                 THEN [kind |-> "response", status |-> "200", error |-> "",
                       message |-> "Event ignored",
                       details |-> "Event type not supported", errType |-> ""]
                 ELSE [kind |-> "returned", status |-> "ignored", error |-> "",
                       message |-> "Event type not supported", details |-> "",
                       errType |-> ""]

\* type "Issue", action "create", non-empty data.id and data.title
IsCreation ==
    /\ req.body.type = "Issue" /\ req.body.action = "create"
    /\ req.body.data.present
    /\ req.body.data.id \notin {UNDEF, ""}
    /\ req.body.data.title \notin {UNDEF, ""}

\* C14: isIssueCreationEvent holds exactly for type "Issue", action "create",
\* non-empty data.id and non-empty data.title; a create event without title or
\* without data is not accepted and raises nothing: classification ignores it.
C14_CreationPredicateExact ==
    /\ BodyParsed => (isIssueCreationEvent(req.body) = IsCreation)
    /\ (BodyParsed /\ Ran("classify") /\ req.body.action = "create") =>
          IF IsCreation THEN ~EndedIgnored /\ outcome.errType # "TypeError"
          ELSE EndedIgnored

C14_Witness ==
    /\ EndedIgnored
    /\ req.body.type = "Issue" /\ req.body.action = "create"
    /\ req.body.data.present /\ req.body.data.id = "ISS-1" /\ req.body.data.title = ""

\* type "Issue", action "update", non-empty data.id, and updatedFrom.labelIds or
\* data.labels.nodes present
IsLabelUpdate ==
    /\ req.body.type = "Issue" /\ req.body.action = "update"
    /\ req.body.data.present
    /\ req.body.data.id \notin {UNDEF, ""}
    /\ req.body.updatedFromLabelIds \/ req.body.data.labels.present

\* C15: isIssueLabelUpdateEvent holds exactly for type "Issue", action "update",
\* non-empty data.id and updatedFrom.labelIds or data.labels.nodes present; the
\* title is not required, and an update carrying neither field is ignored.
C15_LabelUpdatePredicateExact ==
    /\ BodyParsed => (isIssueLabelUpdateEvent(req.body) = IsLabelUpdate)
    /\ (BodyParsed /\ Ran("classify") /\ req.body.action = "update") =>
          IF IsLabelUpdate THEN ~EndedIgnored ELSE EndedIgnored

C15_Witness ==
    /\ Ran("idcheck")
    /\ req.body.type = "Issue" /\ req.body.action = "update"
    /\ req.body.data.id = "ISS-1" /\ req.body.data.title = UNDEF
    /\ ~req.body.updatedFromLabelIds /\ req.body.data.labels.present

(***************************************************************************)
(* Properties of the three checks of the authenticator.                    *)
(***************************************************************************)
\* the run ended with the authentication error
EndedUnauthorized ==
    /\ pc = "done" /\ log = <<"auth">>
    /\ IF entry = "http"
       THEN outcome.kind = "response" /\ outcome.status = "401"
            /\ outcome.error = "Invalid webhook request"
       ELSE outcome.kind = "raised" /\ outcome.error = "Invalid webhook request"

\* C16: the timestamp check passes exactly when now and webhookTimestamp are at
\* most 60000 ms apart, in the past and in the future: 60000 passes, 60001 fails;
\* a request that is otherwise valid with a timestamp 61 seconds old ends as 401.
C16_TimestampWindowInclusive ==
    /\ (BodyParsed /\ req.body.webhookTimestamp.present) =>
          LET ts == req.body.webhookTimestamp.value
          IN verifyWebhookTimestamp(req.body, Now) =
                (Now - 60000 <= ts /\ ts <= Now + 60000)
    /\ (HasRequest /\ BodyParsed /\ Ran("auth") /\ IpCheckHolds /\ SignatureCheckHolds
           /\ req.body.webhookTimestamp.present) =>
          LET ts == req.body.webhookTimestamp.value
          IN /\ ts \in {Now - 60000, Now + 60000} => ~EndedUnauthorized
             /\ ts \in {Now - 60001, Now + 60001, Now - 61000} => EndedUnauthorized

C16_Witness ==
    /\ Ran("classify") /\ req.body.webhookTimestamp.present
    /\ req.body.webhookTimestamp.value = Now - 60000

\* the lowercase hex HMAC-SHA256 digest of the raw body under the configured secret
BodyDigest == [src |-> <<env.linearWebhookSecret, req.body>>, hex |-> "lower", len |-> 64]

\* C17: the signature check passes exactly when the linear-signature header is
\* string-equal to the lowercase hex digest of the raw body under the secret; a
\* header in another letter case or of another length (an absent header is the
\* empty string) fails, and only exactly signed requests pass authentication.
C17_SignatureExactMatch ==
    HasRequest =>
        /\ verifyWebhookSignature(req.body, req.headers.signature, env.linearWebhookSecret)
              = (req.headers.signature = BodyDigest)
        /\ (req.headers.signature.hex # "lower" \/ req.headers.signature.len # 64) =>
              ~verifyWebhookSignature(req.body, req.headers.signature,
                                      env.linearWebhookSecret)
        /\ Ran("classify") => req.headers.signature = BodyDigest
        /\ (Ran("auth") /\ req.headers.signature # BodyDigest) => EndedUnauthorized

C17_Witness ==
    /\ HasRequest /\ EndedUnauthorized /\ IpCheckHolds /\ TimestampCheckHolds
    /\ req.headers.signature = [BodyDigest EXCEPT !.hex = "upper"]

\* the four allowlisted addresses as exact strings
LiteralAllowed ==
    {<<[addr |-> a, pad |-> FALSE]>> :
        a \in {"35.231.147.226", "35.243.134.228", "34.140.253.14", "34.38.87.206"}}

\* C18: the IP check passes exactly for the four allowlisted addresses and fails
\* for every other value: the empty string, text that is no address, an allowlisted
\* address with whitespace around it or a port, and the placeholder "0.0.0.0" used
\* when the request has no client-address header.
C18_OnlyLiteralAddressesPass ==
    /\ \A ip \in AddressHeaders \cup {IpText("0.0.0.0")} :
          verifyWebhookIp(ip) = (ip \in LiteralAllowed)
    /\ HasRequest =>
          /\ verifyWebhookIp(SourceIp(entry, req)) = (SourceIp(entry, req) \in LiteralAllowed)
          /\ (req.address = <<>> /\ req.xRealIp = <<>>) =>
                SourceIp(entry, req) = <<[addr |-> "0.0.0.0", pad |-> FALSE]>>
          /\ (Ran("auth") /\ SourceIp(entry, req) \notin LiteralAllowed) => EndedUnauthorized
          /\ Ran("classify") => SourceIp(entry, req) \in LiteralAllowed

C18_Witness ==
    /\ HasRequest /\ EndedUnauthorized /\ SignatureCheckHolds /\ TimestampCheckHolds
    /\ req.address = <<>> /\ req.xRealIp = <<>>

(***************************************************************************)
(* Properties of the configuration.                                        *)
(***************************************************************************)
\* the configuration fault validateWebhookRequest raises
SecretNotConfigured ==
    [kind |-> "throw", value |-> FALSE, errType |-> "Error",
     message |-> "LINEAR_WEBHOOK_SECRET is not configured"]

\* the run ended at start-up, before a request was read
EndedAtStartup ==
    /\ pc = "done" /\ log = <<>> /\ req = NoRequest
    /\ outcome.kind = "raised"
    /\ outcome.error = "Missing required environment variables"

\* C19: with an empty or unset secret validateWebhookRequest raises the
\* configuration fault whatever the headers, body and address, before the IP,
\* signature and timestamp checks decide anything; an empty or unset secret never
\* ends a run as a validation failure (false / 401).
C19_EmptySecretIsConfigurationFault ==
    /\ pc \notin {"start", "listening"} =>
          \A secret \in {"", UNDEF} :
              validateWebhookRequest(req.headers, req.body, SourceIp(entry, req),
                                     secret, Now) = SecretNotConfigured
    /\ (pc # "start" /\ GetProp(envVars, "LINEAR_WEBHOOK_SECRET") \in {"", UNDEF}) =>
          EndedAtStartup

C19_Witness ==
    /\ pc = "done" /\ Ran("auth") /\ ~IpCheckHolds
    /\ validateWebhookRequest(req.headers, req.body, SourceIp(entry, req), "", Now)
          = SecretNotConfigured

\* the environment variable that holds a role's credential
CredentialKey(role) ==
    CASE role = "manager" -> "MANAGER_API_KEY"
      [] role = "bug" -> "BUG_API_KEY"
      [] role = "feature" -> "FEATURE_API_KEY"
      [] role = "improvement" -> "IMPROVEMENT_API_KEY"

\* the webhook secret or one of the four credentials is missing or empty
ConfigurationIncomplete ==
    \E key \in {"LINEAR_WEBHOOK_SECRET", "MANAGER_API_KEY", "BUG_API_KEY",
                 "FEATURE_API_KEY", "IMPROVEMENT_API_KEY"} :
        GetProp(envVars, key) \in {"", UNDEF}

\* C20: the configuration is validated before any request: with the secret or a
\* credential missing or empty validateEnv raises and no request is authenticated;
\* the state-store parameters are optional; and after a successful validation
\* every credential the pipeline reads for a role is the non-empty value
\* configured for that role.
C20_ConfigurationValidatedFirst ==
    /\ (pc # "start" /\ ConfigurationIncomplete) => EndedAtStartup
    /\ (pc # "start" /\ ~ConfigurationIncomplete) => ~EndedAtStartup
    /\ Ran("clients") =>
          \A role \in {"manager", "bug", "feature", "improvement"} :
              /\ GetProp(env, ApiKeyField(entry, role)) = GetProp(envVars, CredentialKey(role))
              /\ GetProp(env, ApiKeyField(entry, role)) \notin {"", UNDEF}

(***************************************************************************)
(* Properties of a dispatched run.                                         *)
(***************************************************************************)
\* C21: the manager agent takes part in every dispatched task, whatever the
\* first label is (a category name, another name, none); the agent a label is
\* assigned to is one of the three specialized agents or none, never the manager.
C21_ManagerAlwaysParticipates ==
    taskRuns > 0 =>
        /\ \E i \in DOMAIN task.agents : task.agents[i] = "manager-agent"
        /\ AssignedAgent(task.label) # "manager-agent"
        /\ (AssignedAgent(task.label) # "none") = (RoutingInput \in CategoryNames)

C21_Witness ==
    /\ taskRuns = 1 /\ task.label = <<"m", "a", "n", "a", "g", "e", "r">>
    /\ task.agents[1] = "manager-agent" /\ AssignedAgent(task.label) = "none"

(***************************************************************************)
(* Properties of two requests handled at the same time.                    *)
(***************************************************************************)
\* the locals of the request that is running
Current ==
    [pc |-> pc, req |-> req, outcome |-> outcome, log |-> log, clients |-> clients,
     issueLabel |-> issueLabel, task |-> task, taskRuns |-> taskRuns,
     comments |-> comments, taskError |-> taskError]

\* the routing input of a request: its first label in lower case
RoutingInputOf(r) ==
    IF r.body.data.labels.present /\ r.body.data.labels.nodes # <<>>
    THEN LowerCased(Head(r.body.data.labels.nodes))
    ELSE <<>>

\* the messages a failed client initialization ends with
ClientFailureMessages ==
    {"Missing API key for manager role", "Missing API key for bug role",
     "Missing API key for feature role", "Missing API key for improvement role",
     "Failed to initialize Linear client for manager",
     "Failed to initialize Linear client for bug",
     "Failed to initialize Linear client for feature",
     "Failed to initialize Linear client for improvement"}

\* the message an outcome reports
MessageOf(o) == IF o.kind = "response" THEN o.details ELSE o.error

\* the locals l of a request are what that request run alone would have: its
\* calls carry its own item, and once finished its outcome is the one its own
\* request and its own collaborators' answers determine
AsIfAlone(l) ==
    /\ l.issueLabel \in {<<>>, RoutingInputOf(l.req)}
    /\ l.taskRuns \in {0, 1}
    /\ l.taskRuns = 1 =>
          /\ l.task.issueId = l.req.body.data.id
          /\ l.task.title = l.req.body.data.title
          /\ l.task.label = RoutingInputOf(l.req)
    /\ \A i \in DOMAIN l.comments : l.comments[i].issueId = l.req.body.data.id
    /\ l.pc = "done" =>
          LET v == validateWebhookRequest(l.req.headers, l.req.body, SourceIp(entry, l.req),
                                          "whsec_live", Now)
          IN IF v.kind = "throw"
             THEN l.outcome = Surface(entry, v) /\ l.taskRuns = 0 /\ l.comments = <<>>
             ELSE IF ~v.value
             THEN /\ l.outcome = IF entry = "http" THEN InvalidWebhookResponse
                                   ELSE Raised(InvalidWebhookError)
                  /\ l.taskRuns = 0 /\ l.comments = <<>> /\ l.clients = {}
             ELSE IF ~(isIssueCreationEvent(l.req.body) \/ isIssueLabelUpdateEvent(l.req.body))
             THEN /\ l.outcome = IF entry = "http" THEN IgnoredResponse ELSE IgnoredResult
                  /\ l.taskRuns = 0 /\ l.comments = <<>> /\ l.clients = {}
             ELSE IF l.clients # {"manager", "bug", "feature", "improvement"}
             THEN /\ MessageOf(l.outcome) \in ClientFailureMessages
                  /\ l.taskRuns = 0 /\ l.comments = <<>>
             ELSE IF l.taskError.kind # "throw"
             THEN /\ l.taskRuns = 1 /\ l.comments = <<>>
                  /\ l.outcome.kind \in {"response", "returned"}
                  /\ l.outcome.message = "Issue processed successfully"
             ELSE /\ l.taskRuns = 1 /\ Len(l.comments) = 1
                  /\ MessageOf(l.outcome) =
                        IF entry = "http" \/ l.comments[1].posted
                        THEN l.taskError.message ELSE "Comment post failed"

\* C22: requests are independent: under every interleaving of two requests each
\* makes the collaborator calls and reaches the terminal outcome it would reach
\* alone, none sees what the other wrote, and the loaded configuration is never
\* modified.
C22_RequestsAreIndependent ==
    /\ AsIfAlone(Current)
    /\ other.pc # "none" => AsIfAlone(other)
    /\ env # NoEnv => env = validateEnv(envVars).value

C22_Witness ==
    /\ pc = "done" /\ other.pc = "done"
    /\ taskRuns = 1 /\ task.issueId = "ISS-1" /\ taskError.kind = "throw"
    /\ other.taskRuns = 1 /\ other.task.issueId = "ISS-2"
    /\ other.taskError.kind # "throw"

(***************************************************************************)
(* Termination of a run.                                                   *)
(***************************************************************************)
\* the terminal classes of an outcome
IsAuthError ==
    \/ outcome.kind = "response" /\ outcome.status = "401"
    \/ outcome.kind = "raised" /\ outcome.error = "Invalid webhook request"

IsIgnored ==
    /\ outcome.kind \in {"response", "returned"}
    /\ "Event type not supported" \in {outcome.details, outcome.message}
    /\ outcome.status \in {"200", "ignored"}

IsSuccess ==
    /\ outcome.kind \in {"response", "returned"}
    /\ outcome.message = "Issue processed successfully"

\* an error other than the authentication error: a payload fault or a failure
IsFailure ==
    \/ outcome.kind = "response" /\ outcome.status = "500"
    \/ outcome.kind = "raised" /\ outcome.error # "Invalid webhook request"

TerminalClasses ==
    {c \in {"auth", "ignored", "success", "failure"} :
        \/ c = "auth" /\ IsAuthError
        \/ c = "ignored" /\ IsIgnored
        \/ c = "success" /\ IsSuccess
        \/ c = "failure" /\ IsFailure}

\* C23: every run eventually ends, in exactly one terminal class (authentication
\* error, ignored, success, or an error: payload fault or failure), every
\* collaborator call settling; an outcome once produced is final, and once the
\* task has been dispatched the run only completes or fails: nothing cancels it.
C23_EveryRunTerminates ==
    /\ <>(pc = "done")
    /\ [](pc = "done" => Cardinality(TerminalClasses) = 1)
    /\ [](pc # "done" => outcome.kind = "none")
    /\ [][outcome.kind # "none" => (outcome' = outcome /\ pc' = pc)]_vars
    /\ [](Ran("dispatch") => pc \in {"taskFailed", "done"})

C23_Witness ==
    /\ pc = "done" /\ Ran("dispatch") /\ Ran("notify")
    /\ TerminalClasses = {"failure"}

\* the number of times a stage was run
Times(stage) == Cardinality({i \in DOMAIN log : log[i] = stage})

\* C24: nothing is retried: in one run the task runner is invoked at most once and
\* the notification attempted at most once; after the task has failed it is not
\* run again, and after the notification has failed it is not attempted again.
C24_NoRetries ==
    /\ [](/\ taskRuns <= 1 /\ Times("dispatch") = taskRuns
          /\ Len(comments) <= 1 /\ Times("notify") = Len(comments))
    /\ [][taskError.kind = "throw" => taskRuns' = taskRuns]_vars
    /\ [][comments # <<>> => comments' = comments]_vars

C24_Witness ==
    /\ pc = "done" /\ taskRuns = 1 /\ taskError.kind = "throw"
    /\ Len(comments) = 1 /\ ~comments[1].posted

(***************************************************************************)
(* Properties of one updatePriority invocation.                            *)
(***************************************************************************)
\* C25: a successful updatePriority run makes, for the given item and in this
\* order, exactly one priority update with the scored value and then exactly one
\* comment carrying that priority, both levels and the reason; the newPriority
\* it returns is the persisted value.
C25_UpdateThenComment ==
    tool \in UpdatePriorityTools =>
        /\ Len(trackerUpdates) <= 1 /\ Len(trackerComments) <= 1
        /\ trackerComments # <<>> => Len(trackerUpdates) = 1
        /\ tpc = "updated" => Len(trackerUpdates) = 1 /\ trackerComments = <<>>
        /\ (tpc = "done" /\ toolResult.kind = "return") =>
              /\ trackerUpdates = <<ScorePriority(tool, toolArgs.d1, toolArgs.d2).value>>
              /\ trackerPriority = trackerUpdates[1]
              /\ Len(trackerComments) = 1
              /\ trackerComments[1].issueId = toolArgs.issueId
              /\ trackerComments[1].priority = trackerUpdates[1]
              /\ trackerComments[1].d1 = toolArgs.d1
              /\ trackerComments[1].d2 = toolArgs.d2
              /\ trackerComments[1].reason = toolArgs.reason
              /\ toolResult.newPriority = trackerPriority

C25_Witness ==
    /\ tool = "feature" /\ tpc = "done" /\ toolResult.kind = "return"
    /\ toolArgs.d1 = "critical" /\ toolArgs.d2 = "xlarge"
    /\ trackerUpdates = <<[t |-> "number", n |-> 2, s |-> ""]>>
    /\ Len(trackerComments) = 1

(***************************************************************************)
(* Properties of the two entry points on the same request.                 *)
(***************************************************************************)
\* the class of a terminal outcome
OutcomeClass(o) ==
    CASE o.kind = "response" /\ o.status = "401" -> "authentication failed"
      [] o.kind = "raised" /\ o.error = "Invalid webhook request" -> "authentication failed"
      [] o.kind = "response" /\ o.status = "200" /\ o.message = "Event ignored" -> "ignored"
      [] o.kind = "returned" /\ o.status = "ignored" -> "ignored"
      [] o.kind \in {"response", "returned"} /\ o.message = "Issue processed successfully" ->
            "dispatch succeeded"
      [] MessageOf(o) = "Invalid payload: missing issue ID" -> "payload fault"
      [] OTHER -> "failed"

\* the tracker SDK and, where both runs dispatched, the task runner and the
\* comment poster answered both runs alike
SameCollaborators ==
    /\ MessageOf(outcome) \notin
          {m \in ClientFailureMessages : m \notin {"Missing API key for manager role",
                                                   "Missing API key for bug role",
                                                   "Missing API key for feature role",
                                                   "Missing API key for improvement role"}}
    /\ (taskRuns = 1 /\ other.taskRuns = 1) =>
          /\ taskError = other.taskError
          /\ Len(comments) = Len(other.comments)
          /\ comments # <<>> => comments[1].posted = other.comments[1].posted

\* C26: for the same request, clock, environment and collaborator behaviour the
\* HTTP handler and the workflow end in the same outcome class, invoke the task
\* runner under the same conditions and report the same primary error.
C26_EntryPointsAgree ==
    (/\ entry = "workflow" /\ pc = "done" /\ other.pc = "done"
     /\ SourceIp("http", req) = SourceIp("workflow", req)
     /\ SameCollaborators) =>
        /\ OutcomeClass(outcome) = OutcomeClass(other.outcome)
        /\ taskRuns = other.taskRuns
        /\ OutcomeClass(outcome) \in {"payload fault", "failed"} =>
              MessageOf(outcome) = MessageOf(other.outcome)

(***************************************************************************)
(* Properties of updatePriority under collaborator failures.               *)
(***************************************************************************)
ToolFailedWith(m) ==
    tpc = "done" /\ toolResult.kind = "throw" /\ toolResult.message = m

UpdateFailed == ToolFailedWith("Failed to update priority: Issue update failed")

CommentFailed == ToolFailedWith("Failed to update priority: Comment post failed")

\* C27: updatePriority is not atomic.  When the priority update fails no comment
\* is posted and the item's priority is unchanged; when the update succeeds and
\* the comment fails the tool raises "Failed to update priority: ..." while the
\* new priority stays persisted; a failure of either call is never returned as
\* a success.
C27_UpdateAndCommentNotAtomic ==
    /\ [](tool \in UpdatePriorityTools =>
            /\ UpdateFailed => trackerUpdates = <<>> /\ trackerComments = <<>>
            /\ CommentFailed =>
                  /\ trackerUpdates = <<priority>>
                  /\ trackerPriority = priority
                  /\ trackerComments = <<>>
            /\ (tpc = "done" /\ toolResult.kind = "return") =>
                  Len(trackerUpdates) = 1 /\ Len(trackerComments) = 1)
    /\ [][(tool \in UpdatePriorityTools /\ UpdateFailed') =>
            trackerPriority' = trackerPriority]_vars
    /\ [][(tool \in UpdatePriorityTools /\ trackerUpdates # <<>>) =>
            trackerPriority' = trackerPriority]_vars

\* the update succeeded (priority 0 became 1), the comment failed
C27_Witness ==
    /\ tool = "bug" /\ CommentFailed
    /\ toolArgs.d1 = "critical" /\ toolArgs.d2 = "critical"
    /\ trackerPriority = JsNumber(1) /\ trackerUpdates = <<JsNumber(1)>>
    /\ trackerComments = <<>>

(***************************************************************************)
(* Properties of the failure comment.                                      *)
(***************************************************************************)
\* C28: the pipeline posts its failure comment only when the task run raised:
\* none after an authentication failure, an ignored event, a payload fault, a
\* failed client initialization or a successful run.  The comment goes through
\* the manager's client and carries the id of the dispatched item.
C28_CommentOnlyAfterTaskFailure ==
    /\ comments # <<>> =>
          /\ Ran("dispatch") /\ taskRuns = 1
          /\ taskError.kind = "throw"
          /\ \A i \in DOMAIN comments :
                /\ comments[i].client = "manager" /\ "manager" \in clients
                /\ comments[i].agentName = "Manager Bot"
                /\ comments[i].issueId = task.issueId
    /\ (pc = "done" /\ HasRequest /\
          \/ OutcomeClass(outcome) \in
                {"authentication failed", "ignored", "payload fault", "dispatch succeeded"}
          \/ MessageOf(outcome) \in ClientFailureMessages) => comments = <<>>
    /\ (pc = "done" /\ taskError.kind = "throw") => Len(comments) = 1

C28_Witness ==
    /\ pc = "done" /\ taskError.kind = "throw"
    /\ Len(comments) = 1 /\ comments[1].posted
    /\ comments[1].issueId = "ISS-1" /\ task.issueId = "ISS-1"

(***************************************************************************)
(* Properties of the id check after classification.                        *)
(***************************************************************************)
\* C29: the payload fault cannot be reached through classification.  Both event
\* predicates require a non-empty data.id, so an event without one is ignored,
\* every run that gets to the id check passes it, and "Invalid payload: missing
\* issue ID" is never raised.
C29_PayloadFaultUnreachable ==
    /\ outcome # PayloadFault
    /\ MessageOf(outcome) # "Invalid payload: missing issue ID"
    /\ pc = "classified" =>
          /\ req.body.data.present
          /\ req.body.data.id \notin {UNDEF, ""}
    /\ Ran("idcheck") => pc # "done" \/ Ran("clients")
    /\ (pc = "done" /\ Ran("classify") /\ req.body.json = "object"
          /\ req.body.data.present /\ ~Truthy(req.body.data.id)) => EndedIgnored

\* an issue-created event with a title and an empty id has been ignored
C29_Witness ==
    /\ EndedIgnored
    /\ req.body.type = "Issue" /\ req.body.action = "create"
    /\ req.body.data.present /\ Truthy(req.body.data.title)
    /\ req.body.data.id = ""

(***************************************************************************)
(* Properties of the authentication-failure response.                      *)
(***************************************************************************)
\* request r fails the IP check, the signature check or the timestamp check
FailsSomeCheck(r) ==
    ~(/\ verifyWebhookIp(SourceIp(entry, r))
      /\ r.headers.signature = HmacSha256Hex(r.body, env.linearWebhookSecret)
      /\ r.body.json = "object"
      /\ r.body.webhookTimestamp.present
      /\ r.body.webhookTimestamp.value - Now <= WINDOW_MS
      /\ Now - r.body.webhookTimestamp.value <= WINDOW_MS)

\* C30: the response to an authentication failure does not tell which check
\* failed: any two requests to the HTTP handler that each fail at least one of
\* the three checks get the same HTTP status and the same body.
C30_AuthFailureIndistinguishable ==
    (/\ entry = "http" /\ env # NoEnv
     /\ pc = "done" /\ other.pc = "done"
     /\ FailsSomeCheck(req) /\ FailsSomeCheck(other.req)) =>
        /\ outcome.status = other.outcome.status
        /\ outcome.error = other.outcome.error
        /\ outcome.details = other.outcome.details
        /\ outcome.message = other.outcome.message

====
